---------------------------- MODULE Spec2Model ----------------------------
(***************************************************************************)
(* Model of the piston event library: the keyboard key code table, the     *)
(* ModifierKey bit set and its event reducer (input/src/keyboard.rs), and  *)
(* the typed event traits PressEvent (press.rs) and RenderEvent            *)
(* (render.rs) over the GenericEvent abstraction.                          *)
(***************************************************************************)
EXTENDS Integers, Sequences, FiniteSets, TLC

VARIABLES
    modifiers,  \* the caller-owned ModifierKey value (u8 bit set)
    before,     \* the ModifierKey value ahead of the latest call of event
    events,     \* the envelopes handed to ModifierKey::event, oldest first
    key,        \* Key handed to u32::from
    val,        \* u32 code
    key2,       \* Key returned by Key::from(val)
    pcKey,      \* which conversion ran last
    reference,  \* envelope the caller of the typed constructor holds
    payload,    \* payload handed to the typed constructor
    built,      \* the typed constructor that ran: "press", "render"
    x,          \* Option<envelope>: the constructed or received envelope
    asked,      \* the extraction that ran on x
    out,        \* what the extraction did
    pcEvent     \* position in the construct / extract sequence

vars ==
    <<modifiers, before, events, key, val, key2, pcKey,
      reference, payload, built, x, asked, out, pcEvent>>

\* Bounds of the model.
MaxHistory == 2        \* envelopes remembered by the sliding window of Spec
MaxScript == 5         \* envelopes fed in one run of SpecScript
MaxLowCode == 130      \* codes 0..MaxLowCode are decoded
MaxHighOffset == 290   \* codes 0x40000000 + 0..MaxHighOffset are decoded

----------------------------------------------------------------------------
\* Option<T>
None == [some |-> FALSE]
Some(v) == [some |-> TRUE, val |-> v]

\* u8 bit operations used by the bitflags! generated methods.
RECURSIVE BitAnd(_, _)
BitAnd(a, b) ==
    IF a = 0 \/ b = 0 THEN 0
    ELSE (a % 2) * (b % 2) + 2 * BitAnd(a \div 2, b \div 2)

RECURSIVE BitOr(_, _)
BitOr(a, b) ==
    IF a = 0 THEN b
    ELSE IF b = 0 THEN a
    ELSE (IF a % 2 = 1 \/ b % 2 = 1 THEN 1 ELSE 0)
         + 2 * BitOr(a \div 2, b \div 2)

BitNot(a) == 255 - a

----------------------------------------------------------------------------
\* bitflags! struct ModifierKey: u8
NO_MODIFIER == 0
CTRL == 1
SHIFT == 2
ALT == 4
GUI == 8
CTRL_SHIFT == BitOr(CTRL, SHIFT)
CTRL_ALT == BitOr(CTRL, ALT)
CTRL_GUI == BitOr(CTRL, GUI)
CTRL_SHIFT_ALT == BitOr(BitOr(CTRL, SHIFT), ALT)
CTRL_SHIFT_GUI == BitOr(BitOr(CTRL, SHIFT), GUI)
CTRL_SHIFT_ALT_GUI == BitOr(BitOr(BitOr(CTRL, SHIFT), ALT), GUI)
SHIFT_ALT == BitOr(SHIFT, ALT)
SHIFT_GUI == BitOr(SHIFT, GUI)
SHIFT_ALT_GUI == BitOr(BitOr(SHIFT, ALT), GUI)
ALT_GUI == BitOr(ALT, GUI)

\* The values that carry a name in the bitflags! block.
ModifierKey ==
    { NO_MODIFIER, CTRL, SHIFT, ALT, GUI, CTRL_SHIFT, CTRL_ALT, CTRL_GUI,
      CTRL_SHIFT_ALT, CTRL_SHIFT_GUI, CTRL_SHIFT_ALT_GUI, SHIFT_ALT,
      SHIFT_GUI, SHIFT_ALT_GUI, ALT_GUI }

\* ModifierKey::insert, ModifierKey::remove, ModifierKey::contains
\* Variant: insert adds the bits arithmetically, wrapping as u8.
insert_add(self, other) == (self + other) % 256

\* Variant: insert assigns `other` instead of adding it.
insert_assign(self, other) == other
insert(self, other) == BitOr(self, other)
\* Variant: remove without the complement of `other`.
remove_no_complement(self, other) == BitAnd(self, other)
remove(self, other) == BitAnd(self, BitNot(other))
contains(self, other) == BitAnd(self, other) = other

\* impl Default for ModifierKey
default == NO_MODIFIER

----------------------------------------------------------------------------
\* enum Key: the variants with their discriminants, in declaration order.
Key == <<
    <<"Unknown", 0>>, <<"Backspace", 8>>, <<"Tab", 9>>, <<"Return", 13>>,
    <<"Escape", 27>>, <<"Space", 32>>, <<"Exclaim", 33>>, <<"Quotedbl", 34>>,
    <<"Hash", 35>>, <<"Dollar", 36>>, <<"Percent", 37>>, <<"Ampersand", 38>>,
    <<"Quote", 39>>, <<"LeftParen", 40>>, <<"RightParen", 41>>,
    <<"Asterisk", 42>>, <<"Plus", 43>>, <<"Comma", 44>>, <<"Minus", 45>>,
    <<"Period", 46>>, <<"Slash", 47>>, <<"D0", 48>>, <<"D1", 49>>,
    <<"D2", 50>>, <<"D3", 51>>, <<"D4", 52>>, <<"D5", 53>>, <<"D6", 54>>,
    <<"D7", 55>>, <<"D8", 56>>, <<"D9", 57>>, <<"Colon", 58>>,
    <<"Semicolon", 59>>, <<"Less", 60>>, <<"Equals", 61>>, <<"Greater", 62>>,
    <<"Question", 63>>, <<"At", 64>>, <<"LeftBracket", 91>>,
    <<"Backslash", 92>>, <<"RightBracket", 93>>, <<"Caret", 94>>,
    <<"Underscore", 95>>, <<"Backquote", 96>>, <<"A", 97>>, <<"B", 98>>,
    <<"C", 99>>, <<"D", 100>>, <<"E", 101>>, <<"F", 102>>, <<"G", 103>>,
    <<"H", 104>>, <<"I", 105>>, <<"J", 106>>, <<"K", 107>>, <<"L", 108>>,
    <<"M", 109>>, <<"N", 110>>, <<"O", 111>>, <<"P", 112>>, <<"Q", 113>>,
    <<"R", 114>>, <<"S", 115>>, <<"T", 116>>, <<"U", 117>>, <<"V", 118>>,
    <<"W", 119>>, <<"X", 120>>, <<"Y", 121>>, <<"Z", 122>>, <<"Delete", 127>>,
    <<"CapsLock", 1073741881>>, <<"F1", 1073741882>>, <<"F2", 1073741883>>,
    <<"F3", 1073741884>>, <<"F4", 1073741885>>, <<"F5", 1073741886>>,
    <<"F6", 1073741887>>, <<"F7", 1073741888>>, <<"F8", 1073741889>>,
    <<"F9", 1073741890>>, <<"F10", 1073741891>>, <<"F11", 1073741892>>,
    <<"F12", 1073741893>>, <<"PrintScreen", 1073741894>>,
    <<"ScrollLock", 1073741895>>, <<"Pause", 1073741896>>,
    <<"Insert", 1073741897>>, <<"Home", 1073741898>>,
    <<"PageUp", 1073741899>>, <<"End", 1073741901>>,
    <<"PageDown", 1073741902>>, <<"Right", 1073741903>>,
    <<"Left", 1073741904>>, <<"Down", 1073741905>>, <<"Up", 1073741906>>,
    <<"NumLockClear", 1073741907>>, <<"NumPadDivide", 1073741908>>,
    <<"NumPadMultiply", 1073741909>>, <<"NumPadMinus", 1073741910>>,
    <<"NumPadPlus", 1073741911>>, <<"NumPadEnter", 1073741912>>,
    <<"NumPad1", 1073741913>>, <<"NumPad2", 1073741914>>,
    <<"NumPad3", 1073741915>>, <<"NumPad4", 1073741916>>,
    <<"NumPad5", 1073741917>>, <<"NumPad6", 1073741918>>,
    <<"NumPad7", 1073741919>>, <<"NumPad8", 1073741920>>,
    <<"NumPad9", 1073741921>>, <<"NumPad0", 1073741922>>,
    <<"NumPadPeriod", 1073741923>>, <<"Application", 1073741925>>,
    <<"Power", 1073741926>>, <<"NumPadEquals", 1073741927>>,
    <<"F13", 1073741928>>, <<"F14", 1073741929>>, <<"F15", 1073741930>>,
    <<"F16", 1073741931>>, <<"F17", 1073741932>>, <<"F18", 1073741933>>,
    <<"F19", 1073741934>>, <<"F20", 1073741935>>, <<"F21", 1073741936>>,
    <<"F22", 1073741937>>, <<"F23", 1073741938>>, <<"F24", 1073741939>>,
    <<"Execute", 1073741940>>, <<"Help", 1073741941>>, <<"Menu", 1073741942>>,
    <<"Select", 1073741943>>, <<"Stop", 1073741944>>, <<"Again", 1073741945>>,
    <<"Undo", 1073741946>>, <<"Cut", 1073741947>>, <<"Copy", 1073741948>>,
    <<"Paste", 1073741949>>, <<"Find", 1073741950>>, <<"Mute", 1073741951>>,
    <<"VolumeUp", 1073741952>>, <<"VolumeDown", 1073741953>>,
    <<"NumPadComma", 1073741957>>, <<"NumPadEqualsAS400", 1073741958>>,
    <<"AltErase", 1073741977>>, <<"Sysreq", 1073741978>>,
    <<"Cancel", 1073741979>>, <<"Clear", 1073741980>>,
    <<"Prior", 1073741981>>, <<"Return2", 1073741982>>,
    <<"Separator", 1073741983>>, <<"Out", 1073741984>>,
    <<"Oper", 1073741985>>, <<"ClearAgain", 1073741986>>,
    <<"CrSel", 1073741987>>, <<"ExSel", 1073741988>>,
    <<"NumPad00", 1073742000>>, <<"NumPad000", 1073742001>>,
    <<"ThousandsSeparator", 1073742002>>, <<"DecimalSeparator", 1073742003>>,
    <<"CurrencyUnit", 1073742004>>, <<"CurrencySubUnit", 1073742005>>,
    <<"NumPadLeftParen", 1073742006>>, <<"NumPadRightParen", 1073742007>>,
    <<"NumPadLeftBrace", 1073742008>>, <<"NumPadRightBrace", 1073742009>>,
    <<"NumPadTab", 1073742010>>, <<"NumPadBackspace", 1073742011>>,
    <<"NumPadA", 1073742012>>, <<"NumPadB", 1073742013>>,
    <<"NumPadC", 1073742014>>, <<"NumPadD", 1073742015>>,
    <<"NumPadE", 1073742016>>, <<"NumPadF", 1073742017>>,
    <<"NumPadXor", 1073742018>>, <<"NumPadPower", 1073742019>>,
    <<"NumPadPercent", 1073742020>>, <<"NumPadLess", 1073742021>>,
    <<"NumPadGreater", 1073742022>>, <<"NumPadAmpersand", 1073742023>>,
    <<"NumPadDblAmpersand", 1073742024>>, <<"NumPadVerticalBar", 1073742025>>,
    <<"NumPadDblVerticalBar", 1073742026>>, <<"NumPadColon", 1073742027>>,
    <<"NumPadHash", 1073742028>>, <<"NumPadSpace", 1073742029>>,
    <<"NumPadAt", 1073742030>>, <<"NumPadExclam", 1073742031>>,
    <<"NumPadMemStore", 1073742032>>, <<"NumPadMemRecall", 1073742033>>,
    <<"NumPadMemClear", 1073742034>>, <<"NumPadMemAdd", 1073742035>>,
    <<"NumPadMemSubtract", 1073742036>>, <<"NumPadMemMultiply", 1073742037>>,
    <<"NumPadMemDivide", 1073742038>>, <<"NumPadPlusMinus", 1073742039>>,
    <<"NumPadClear", 1073742040>>, <<"NumPadClearEntry", 1073742041>>,
    <<"NumPadBinary", 1073742042>>, <<"NumPadOctal", 1073742043>>,
    <<"NumPadDecimal", 1073742044>>, <<"NumPadHexadecimal", 1073742045>>,
    <<"LCtrl", 1073742048>>, <<"LShift", 1073742049>>, <<"LAlt", 1073742050>>,
    <<"LGui", 1073742051>>, <<"RCtrl", 1073742052>>, <<"RShift", 1073742053>>,
    <<"RAlt", 1073742054>>, <<"RGui", 1073742055>>, <<"Mode", 1073742081>>,
    <<"AudioNext", 1073742082>>, <<"AudioPrev", 1073742083>>,
    <<"AudioStop", 1073742084>>, <<"AudioPlay", 1073742085>>,
    <<"AudioMute", 1073742086>>, <<"MediaSelect", 1073742087>>,
    <<"Www", 1073742088>>, <<"Mail", 1073742089>>,
    <<"Calculator", 1073742090>>, <<"Computer", 1073742091>>,
    <<"AcSearch", 1073742092>>, <<"AcHome", 1073742093>>,
    <<"AcBack", 1073742094>>, <<"AcForward", 1073742095>>,
    <<"AcStop", 1073742096>>, <<"AcRefresh", 1073742097>>,
    <<"AcBookmarks", 1073742098>>, <<"BrightnessDown", 1073742099>>,
    <<"BrightnessUp", 1073742100>>, <<"DisplaySwitch", 1073742101>>,
    <<"KbdIllumToggle", 1073742102>>, <<"KbdIllumDown", 1073742103>>,
    <<"KbdIllumUp", 1073742104>>, <<"Eject", 1073742105>>,
    <<"Sleep", 1073742106>>
>>

Keys == { Key[i][1] : i \in DOMAIN Key }

\* Variant: the cast goes through u8 and keeps the low byte only.
KeyIntoU32_u8(k) == Key[CHOOSE i \in DOMAIN Key : Key[i][1] = k][2] % 256

\* impl From<Key> for u32: key as u32
KeyIntoU32(k) == Key[CHOOSE i \in DOMAIN Key : Key[i][1] = k][2]

\* impl From<u32> for Key: the arms of the match, in source order.
FromArms == <<
    <<0, "Unknown">>, <<8, "Backspace">>, <<9, "Tab">>, <<13, "Return">>,
    <<27, "Escape">>, <<32, "Space">>, <<33, "Exclaim">>, <<34, "Quotedbl">>,
    <<35, "Hash">>, <<36, "Dollar">>, <<37, "Percent">>, <<38, "Ampersand">>,
    <<39, "Quote">>, <<40, "LeftParen">>, <<41, "RightParen">>,
    <<42, "Asterisk">>, <<43, "Plus">>, <<44, "Comma">>, <<45, "Minus">>,
    <<46, "Period">>, <<47, "Slash">>, <<48, "D0">>, <<49, "D1">>,
    <<50, "D2">>, <<51, "D3">>, <<52, "D4">>, <<53, "D5">>, <<54, "D6">>,
    <<55, "D7">>, <<56, "D8">>, <<57, "D9">>, <<58, "Colon">>,
    <<59, "Semicolon">>, <<60, "Less">>, <<61, "Equals">>, <<62, "Greater">>,
    <<63, "Question">>, <<64, "At">>, <<91, "LeftBracket">>,
    <<92, "Backslash">>, <<93, "RightBracket">>, <<94, "Caret">>,
    <<95, "Underscore">>, <<96, "Backquote">>, <<97, "A">>, <<98, "B">>,
    <<99, "C">>, <<100, "D">>, <<101, "E">>, <<102, "F">>, <<103, "G">>,
    <<104, "H">>, <<105, "I">>, <<106, "J">>, <<107, "K">>, <<108, "L">>,
    <<109, "M">>, <<110, "N">>, <<111, "O">>, <<112, "P">>, <<113, "Q">>,
    <<114, "R">>, <<115, "S">>, <<116, "T">>, <<117, "U">>, <<118, "V">>,
    <<119, "W">>, <<120, "X">>, <<121, "Y">>, <<122, "Z">>, <<127, "Delete">>,
    <<1073741881, "CapsLock">>, <<1073741882, "F1">>, <<1073741883, "F2">>,
    <<1073741884, "F3">>, <<1073741885, "F4">>, <<1073741886, "F5">>,
    <<1073741887, "F6">>, <<1073741888, "F7">>, <<1073741889, "F8">>,
    <<1073741890, "F9">>, <<1073741891, "F10">>, <<1073741892, "F11">>,
    <<1073741893, "F12">>, <<1073741894, "PrintScreen">>,
    <<1073741895, "ScrollLock">>, <<1073741896, "Pause">>,
    <<1073741897, "Insert">>, <<1073741898, "Home">>,
    <<1073741899, "PageUp">>, <<1073741901, "End">>,
    <<1073741902, "PageDown">>, <<1073741903, "Right">>,
    <<1073741904, "Left">>, <<1073741905, "Down">>, <<1073741906, "Up">>,
    <<1073741907, "NumLockClear">>, <<1073741908, "NumPadDivide">>,
    <<1073741909, "NumPadMultiply">>, <<1073741910, "NumPadMinus">>,
    <<1073741911, "NumPadPlus">>, <<1073741912, "NumPadEnter">>,
    <<1073741913, "NumPad1">>, <<1073741914, "NumPad2">>,
    <<1073741915, "NumPad3">>, <<1073741916, "NumPad4">>,
    <<1073741917, "NumPad5">>, <<1073741918, "NumPad6">>,
    <<1073741919, "NumPad7">>, <<1073741920, "NumPad8">>,
    <<1073741921, "NumPad9">>, <<1073741922, "NumPad0">>,
    <<1073741923, "NumPadPeriod">>, <<1073741925, "Application">>,
    <<1073741926, "Power">>, <<1073741927, "NumPadEquals">>,
    <<1073741928, "F13">>, <<1073741929, "F14">>, <<1073741930, "F15">>,
    <<1073741931, "F16">>, <<1073741932, "F17">>, <<1073741933, "F18">>,
    <<1073741934, "F19">>, <<1073741935, "F20">>, <<1073741936, "F21">>,
    <<1073741937, "F22">>, <<1073741938, "F23">>, <<1073741939, "F24">>,
    <<1073741940, "Execute">>, <<1073741941, "Help">>, <<1073741942, "Menu">>,
    <<1073741943, "Select">>, <<1073741944, "Stop">>, <<1073741945, "Again">>,
    <<1073741946, "Undo">>, <<1073741947, "Cut">>, <<1073741948, "Copy">>,
    <<1073741949, "Paste">>, <<1073741950, "Find">>, <<1073741951, "Mute">>,
    <<1073741952, "VolumeUp">>, <<1073741953, "VolumeDown">>,
    <<1073741957, "NumPadComma">>, <<1073741958, "NumPadEqualsAS400">>,
    <<1073741977, "AltErase">>, <<1073741978, "Sysreq">>,
    <<1073741979, "Cancel">>, <<1073741980, "Clear">>,
    <<1073741981, "Prior">>, <<1073741982, "Return2">>,
    <<1073741983, "Separator">>, <<1073741984, "Out">>,
    <<1073741985, "Oper">>, <<1073741986, "ClearAgain">>,
    <<1073741987, "CrSel">>, <<1073741988, "ExSel">>,
    <<1073742000, "NumPad00">>, <<1073742001, "NumPad000">>,
    <<1073742002, "ThousandsSeparator">>, <<1073742003, "DecimalSeparator">>,
    <<1073742004, "CurrencyUnit">>, <<1073742005, "CurrencySubUnit">>,
    <<1073742006, "NumPadLeftParen">>, <<1073742007, "NumPadRightParen">>,
    <<1073742008, "NumPadLeftBrace">>, <<1073742009, "NumPadRightBrace">>,
    <<1073742010, "NumPadTab">>, <<1073742011, "NumPadBackspace">>,
    <<1073742012, "NumPadA">>, <<1073742013, "NumPadB">>,
    <<1073742014, "NumPadC">>, <<1073742015, "NumPadD">>,
    <<1073742016, "NumPadE">>, <<1073742017, "NumPadF">>,
    <<1073742018, "NumPadXor">>, <<1073742019, "NumPadPower">>,
    <<1073742020, "NumPadPercent">>, <<1073742021, "NumPadLess">>,
    <<1073742022, "NumPadGreater">>, <<1073742023, "NumPadAmpersand">>,
    <<1073742024, "NumPadDblAmpersand">>, <<1073742025, "NumPadVerticalBar">>,
    <<1073742026, "NumPadDblVerticalBar">>, <<1073742027, "NumPadColon">>,
    <<1073742028, "NumPadHash">>, <<1073742029, "NumPadSpace">>,
    <<1073742030, "NumPadAt">>, <<1073742031, "NumPadExclam">>,
    <<1073742032, "NumPadMemStore">>, <<1073742033, "NumPadMemRecall">>,
    <<1073742034, "NumPadMemClear">>, <<1073742035, "NumPadMemAdd">>,
    <<1073742036, "NumPadMemSubtract">>, <<1073742037, "NumPadMemMultiply">>,
    <<1073742038, "NumPadMemDivide">>, <<1073742039, "NumPadPlusMinus">>,
    <<1073742040, "NumPadClear">>, <<1073742041, "NumPadClearEntry">>,
    <<1073742042, "NumPadBinary">>, <<1073742043, "NumPadOctal">>,
    <<1073742044, "NumPadDecimal">>, <<1073742045, "NumPadHexadecimal">>,
    <<1073742048, "LCtrl">>, <<1073742049, "LShift">>, <<1073742050, "LAlt">>,
    <<1073742051, "LGui">>, <<1073742052, "RCtrl">>, <<1073742053, "RShift">>,
    <<1073742054, "RAlt">>, <<1073742055, "RGui">>, <<1073742081, "Mode">>,
    <<1073742082, "AudioNext">>, <<1073742083, "AudioPrev">>,
    <<1073742084, "AudioStop">>, <<1073742085, "AudioPlay">>,
    <<1073742086, "AudioMute">>, <<1073742087, "MediaSelect">>,
    <<1073742088, "Www">>, <<1073742089, "Mail">>,
    <<1073742090, "Calculator">>, <<1073742091, "Computer">>,
    <<1073742092, "AcSearch">>, <<1073742093, "AcHome">>,
    <<1073742094, "AcBack">>, <<1073742095, "AcForward">>,
    <<1073742096, "AcStop">>, <<1073742097, "AcRefresh">>,
    <<1073742098, "AcBookmarks">>, <<1073742099, "BrightnessDown">>,
    <<1073742100, "BrightnessUp">>, <<1073742101, "DisplaySwitch">>,
    <<1073742102, "KbdIllumToggle">>, <<1073742103, "KbdIllumDown">>,
    <<1073742104, "KbdIllumUp">>, <<1073742105, "Eject">>,
    <<1073742106, "Sleep">>
>>

\* Variant: the match ignores bit 30, the bit that marks a scancode key.
KeyFromU32_masked(v) ==
    LET hits == { i \in DOMAIN FromArms : FromArms[i][1] % 1073741824
                                            = v % 1073741824 }
    IN IF hits = {} THEN "Unknown"
       ELSE FromArms[CHOOSE i \in hits : \A j \in hits : i <= j][2]

\* impl From<u32> for Key: the first arm whose pattern is val, else the
\* wildcard arm.
KeyFromU32(v) ==
    LET hits == { i \in DOMAIN FromArms : FromArms[i][1] = v }
    IN IF hits = {} THEN "Unknown"
       ELSE FromArms[CHOOSE i \in hits : \A j \in hits : i <= j][2]

----------------------------------------------------------------------------
\* enum Button: the variants the reducer matches on.
Keyboard(k) == [tag |-> "Keyboard", val |-> k]
Mouse(b) == [tag |-> "Mouse", val |-> b]

ModifierKeys ==
    {"LCtrl", "RCtrl", "LShift", "RShift", "LAlt", "RAlt", "LGui", "RGui"}
OtherKeys == {"A"}
Buttons ==
    { Keyboard(k) : k \in ModifierKeys \cup OtherKeys } \cup { Mouse("Left") }

\* struct RenderArgs { ext_dt, width, height }
RenderArgs(ext_dt, width, height) ==
    [ext_dt |-> ext_dt, width |-> width, height |-> height]
RenderArgsSet == { RenderArgs(1, 10, 10), RenderArgs(0, 20, 10) }

\* struct UpdateArgs { dt }
UpdateArgsSet == { [dt |-> 1] }

\* &Any: a value together with the type it downcasts to.
AsAny(type, v) == <<type, v>>
downcast_ref(type, any) == IF any[1] = type THEN Some(any[2]) ELSE None

\* EventId constants
PRESS == "piston/press"
RELEASE == "piston/release"
RENDER == "piston/render"
UPDATE == "piston/update"
FOCUS == "piston/focus"
TEXT == "piston/text"
RESIZE == "piston/resize"
MOUSE_CURSOR == "piston/mouse_cursor"

\* An envelope is <<concrete type, variant, payload>>; a concrete type may
\* carry out-of-band fields after the payload.
EnumOf(e) == e[1]
TagOf(e) == e[2]
ValOf(e) == e[3]

\* enum Input, the flat envelope.
Input_Press(b) == <<"Input", "Press", b>>
Input_Release(b) == <<"Input", "Release", b>>
Input_Focus(f) == <<"Input", "Focus", f>>
Input_Text(s) == <<"Input", "Text", s>>
Input_Resize(w, h) == <<"Input", "Resize", <<w, h>>>>
Input_Move(xy) == <<"Input", "Move", xy>>

\* enum Event, the composite envelope { Render, Update, Input }.
Event_Render(args) == <<"Event", "Render", args>>
Event_Update(args) == <<"Event", "Update", args>>
Event_Input(i) == <<"Event", "Input", i>>

InputEnvelopes ==
    { Input_Press(b) : b \in Buttons } \cup
    { Input_Release(b) : b \in Buttons } \cup
    { Input_Focus(f) : f \in BOOLEAN } \cup
    { Input_Text("a"), Input_Resize(10, 10), Input_Move(<<1, 2>>) }

EventEnvelopes ==
    { Event_Render(a) : a \in RenderArgsSet } \cup
    { Event_Update(a) : a \in UpdateArgsSet } \cup
    { Event_Input(i) : i \in InputEnvelopes }

Envelopes == InputEnvelopes \cup EventEnvelopes

\* A third-party envelope that stores the identity tag and the untyped
\* payload side by side, and a timestamp as an out-of-band field. Nothing
\* ties the tag to the type of the payload.
Tagged(id, any, time) == <<"Tagged", id, any, time>>
TimeOf(e) == e[4]
Times == {0, 1}
TaggedEnvelopes ==
    { Tagged(id, any, t) :
        id \in {PRESS, RELEASE, RENDER, FOCUS},
        any \in { AsAny("Button", Keyboard("A")),
                  AsAny("RenderArgs", RenderArgs(1, 10, 10)),
                  AsAny("bool", FALSE) },
        t \in Times }

\* impl GenericEvent for Input
Input_event_id(e) ==
    CASE TagOf(e) = "Press" -> PRESS
      [] TagOf(e) = "Release" -> RELEASE
      [] TagOf(e) = "Focus" -> FOCUS
      [] TagOf(e) = "Text" -> TEXT
      [] TagOf(e) = "Resize" -> RESIZE
      [] TagOf(e) = "Move" -> MOUSE_CURSOR

Input_args(e) ==
    CASE TagOf(e) = "Press" -> AsAny("Button", ValOf(e))
      [] TagOf(e) = "Release" -> AsAny("Button", ValOf(e))
      [] TagOf(e) = "Focus" -> AsAny("bool", ValOf(e))
      [] TagOf(e) = "Text" -> AsAny("String", ValOf(e))
      [] TagOf(e) = "Resize" -> AsAny("(u32, u32)", ValOf(e))
      [] TagOf(e) = "Move" -> AsAny("(f64, f64)", ValOf(e))

\* A constructor that is handed a payload of the wrong type panics.
Panic == [some |-> FALSE, panic |-> TRUE]

Input_from_args(id, any, old_event) ==
    CASE id = PRESS ->
           IF downcast_ref("Button", any).some
           THEN Some(Input_Press(any[2]))
           ELSE Panic
      [] id = RELEASE ->
           IF downcast_ref("Button", any).some
           THEN Some(Input_Release(any[2]))
           ELSE Panic
      [] id = FOCUS ->
           IF downcast_ref("bool", any).some
           THEN Some(Input_Focus(any[2]))
           ELSE Panic
      [] id = TEXT ->
           IF downcast_ref("String", any).some
           THEN Some(Input_Text(any[2]))
           ELSE Panic
      [] id = RESIZE ->
           IF downcast_ref("(u32, u32)", any).some
           THEN Some(Input_Resize(any[2][1], any[2][2]))
           ELSE Panic
      [] id = MOUSE_CURSOR ->
           IF downcast_ref("(f64, f64)", any).some
           THEN Some(Input_Move(any[2]))
           ELSE Panic
      [] OTHER -> None

\* impl GenericEvent for Event
Event_event_id(e) ==
    CASE TagOf(e) = "Render" -> RENDER
      [] TagOf(e) = "Update" -> UPDATE
      [] TagOf(e) = "Input" -> Input_event_id(ValOf(e))

Event_args(e) ==
    CASE TagOf(e) = "Render" -> AsAny("RenderArgs", ValOf(e))
      [] TagOf(e) = "Update" -> AsAny("UpdateArgs", ValOf(e))
      [] TagOf(e) = "Input" -> Input_args(ValOf(e))

Event_from_args(id, any, old_event) ==
    CASE id = RENDER ->
           IF downcast_ref("RenderArgs", any).some
           THEN Some(Event_Render(any[2]))
           ELSE Panic
      [] id = UPDATE ->
           IF downcast_ref("UpdateArgs", any).some
           THEN Some(Event_Update(any[2]))
           ELSE Panic
      [] OTHER ->
           LET input == Input_from_args(id, any, old_event)
           IN IF input.some THEN Some(Event_Input(input.val)) ELSE input

\* from_args for Self = T; old_event is the reference envelope, NoOldEvent
\* where the caller passes none.
NoOldEvent == <<"none">>

\* impl GenericEvent for the tagged envelope: every kind is representable,
\* the timestamp is taken over from the reference envelope.
Tagged_from_args(id, any, old_event) ==
    Some(Tagged(id, any,
                IF old_event = NoOldEvent THEN 0 ELSE TimeOf(old_event)))

\* trait GenericEvent, dispatched on the concrete envelope type.
event_id(e) ==
    CASE EnumOf(e) = "Input" -> Input_event_id(e)
      [] EnumOf(e) = "Event" -> Event_event_id(e)
      [] EnumOf(e) = "Tagged" -> TagOf(e)

\* The payload an envelope hands out as &Any.
args_of(e) ==
    CASE EnumOf(e) = "Input" -> Input_args(e)
      [] EnumOf(e) = "Event" -> Event_args(e)
      [] EnumOf(e) = "Tagged" -> ValOf(e)

Anys == { args_of(e) : e \in Envelopes \cup TaggedEnvelopes }

\* with_args hands the payload to the visitor f, once. A visitor is a
\* function from its argument to what the call returns.
with_args(e, f) == f[args_of(e)]

from_args(T, id, any, old_event) ==
    CASE T = "Input" -> Input_from_args(id, any, old_event)
      [] T = "Event" -> Event_from_args(id, any, old_event)
      [] T = "Tagged" -> Tagged_from_args(id, any, old_event)

----------------------------------------------------------------------------
\* What an extraction did: the value returned, the arguments of the calls
\* of the visitor in order, and whether it panicked.
Returned(r, c) == [ret |-> r, calls |-> c, panic |-> FALSE]
Panicked == [ret |-> None, calls |-> <<>>, panic |-> TRUE]

\* Variant: the constructor tags the payload with the id of ReleaseEvent.
from_button_release(button, old_event) ==
    from_args(EnumOf(old_event), RELEASE, AsAny("Button", button),
              old_event)

\* Variant: the test of the event id is inverted.
press_inverted(self, f) ==
    IF event_id(self) = PRESS THEN Returned(None, <<>>)
    ELSE with_args(self, [any \in Anys |->
             IF downcast_ref("Button", any).some
             THEN Returned(Some(f[downcast_ref("Button", any).val]),
                           <<downcast_ref("Button", any).val>>)
             ELSE Panicked])

\* Variant: a payload that is not a Button is passed over as None.
press_lenient(self, f) ==
    IF event_id(self) # PRESS THEN Returned(None, <<>>)
    ELSE with_args(self, [any \in Anys |->
             IF downcast_ref("Button", any).some
             THEN Returned(Some(f[downcast_ref("Button", any).val]),
                           <<downcast_ref("Button", any).val>>)
             ELSE Returned(None, <<>>)])

\* impl<T: GenericEvent> PressEvent for T
from_button(button, old_event) ==
    from_args(EnumOf(old_event), PRESS, AsAny("Button", button), old_event)

press(self, f) ==
    IF event_id(self) # PRESS THEN Returned(None, <<>>)
    ELSE with_args(self, [any \in Anys |->
             IF downcast_ref("Button", any).some
             THEN Returned(Some(f[downcast_ref("Button", any).val]),
                           <<downcast_ref("Button", any).val>>)
             ELSE Panicked])

press_args(self) == press(self, [button \in Buttons |-> button])

\* Variant: render without the test of the event id.
render_unchecked(self, f) ==
    with_args(self, [any \in Anys |->
        IF downcast_ref("RenderArgs", any).some
        THEN Returned(Some(f[downcast_ref("RenderArgs", any).val]),
                      <<downcast_ref("RenderArgs", any).val>>)
        ELSE Panicked])

\* Variant: the constructor insists on an envelope and panics on None.
from_render_args_unwrap(T, args) ==
    IF from_args(T, RENDER, AsAny("RenderArgs", args), NoOldEvent).some
    THEN from_args(T, RENDER, AsAny("RenderArgs", args), NoOldEvent)
    ELSE Panic

\* impl<T: GenericEvent> RenderEvent for T
from_render_args(T, args) ==
    from_args(T, RENDER, AsAny("RenderArgs", args), NoOldEvent)

render(self, f) ==
    IF event_id(self) # RENDER THEN Returned(None, <<>>)
    ELSE with_args(self, [any \in Anys |->
             IF downcast_ref("RenderArgs", any).some
             THEN Returned(Some(f[downcast_ref("RenderArgs", any).val]),
                           <<downcast_ref("RenderArgs", any).val>>)
             ELSE Panicked])

render_args(self) == render(self, [args \in RenderArgsSet |-> args])

\* ReleaseEvent and FocusEvent, of the same shape as PressEvent.
release(self, f) ==
    IF event_id(self) # RELEASE THEN Returned(None, <<>>)
    ELSE with_args(self, [any \in Anys |->
             IF downcast_ref("Button", any).some
             THEN Returned(Some(f[downcast_ref("Button", any).val]),
                           <<downcast_ref("Button", any).val>>)
             ELSE Panicked])

release_args(self) == release(self, [button \in Buttons |-> button])

focus(self, f) ==
    IF event_id(self) # FOCUS THEN Returned(None, <<>>)
    ELSE with_args(self, [any \in Anys |->
             IF downcast_ref("bool", any).some
             THEN Returned(Some(f[downcast_ref("bool", any).val]),
                           <<downcast_ref("bool", any).val>>)
             ELSE Panicked])

focus_args(self) == focus(self, [focused \in BOOLEAN |-> focused])

----------------------------------------------------------------------------
\* ModifierKey::event, the three `if let` blocks in order.
\* Variant: the arm of the Gui keys matches LGui only.
event_press_left_gui(self, pressed) ==
    IF pressed.some
    THEN CASE pressed.val \in {Keyboard("LCtrl"), Keyboard("RCtrl")} ->
                insert(self, CTRL)
           [] pressed.val \in {Keyboard("LShift"), Keyboard("RShift")} ->
                insert(self, SHIFT)
           [] pressed.val \in {Keyboard("LAlt"), Keyboard("RAlt")} ->
                insert(self, ALT)
           [] pressed.val \in {Keyboard("LGui")} ->
                insert(self, GUI)
           [] OTHER -> self
    ELSE self

event_press(self, pressed) ==
    IF pressed.some
    THEN CASE pressed.val \in {Keyboard("LCtrl"), Keyboard("RCtrl")} ->
                insert(self, CTRL)
           [] pressed.val \in {Keyboard("LShift"), Keyboard("RShift")} ->
                insert(self, SHIFT)
           [] pressed.val \in {Keyboard("LAlt"), Keyboard("RAlt")} ->
                insert(self, ALT)
           [] pressed.val \in {Keyboard("LGui"), Keyboard("RGui")} ->
                insert(self, GUI)
           [] OTHER -> self
    ELSE self

\* Variant: the arm of the Ctrl keys matches RCtrl only.
event_release_right_ctrl(self, released) ==
    IF released.some
    THEN CASE released.val \in {Keyboard("RCtrl")} ->
                remove(self, CTRL)
           [] released.val \in {Keyboard("LShift"), Keyboard("RShift")} ->
                remove(self, SHIFT)
           [] released.val \in {Keyboard("LAlt"), Keyboard("RAlt")} ->
                remove(self, ALT)
           [] released.val \in {Keyboard("LGui"), Keyboard("RGui")} ->
                remove(self, GUI)
           [] OTHER -> self
    ELSE self

event_release(self, released) ==
    IF released.some
    THEN CASE released.val \in {Keyboard("LCtrl"), Keyboard("RCtrl")} ->
                remove(self, CTRL)
           [] released.val \in {Keyboard("LShift"), Keyboard("RShift")} ->
                remove(self, SHIFT)
           [] released.val \in {Keyboard("LAlt"), Keyboard("RAlt")} ->
                remove(self, ALT)
           [] released.val \in {Keyboard("LGui"), Keyboard("RGui")} ->
                remove(self, GUI)
           [] OTHER -> self
    ELSE self

\* Variant: every focus change resets, gained or lost.
event_focus_any(self, focused) ==
    IF focused.some THEN NO_MODIFIER ELSE self

\* Variant: the reset happens on focus gained instead of focus lost.
event_focus_gained(self, focused) ==
    IF focused = Some(TRUE) THEN NO_MODIFIER ELSE self

event_focus(self, focused) ==
    IF focused = Some(FALSE) THEN NO_MODIFIER ELSE self

\* Variant: a fourth query, render_args, is consulted and resets the state.
event_render_reset(self, e) ==
    IF render_args(e).ret.some THEN NO_MODIFIER
    ELSE event_focus(
             event_release(
                 event_press(self, press_args(e).ret),
                 release_args(e).ret),
             focus_args(e).ret)

event(self, e) ==
    event_focus(
        event_release(
            event_press(self, press_args(e).ret),
            release_args(e).ret),
        focus_args(e).ret)

----------------------------------------------------------------------------
\* The reducer fed from an event stream.
TrackerInit ==
    /\ modifiers = default
    /\ before = default
    /\ events = <<>>

KeyIdle ==
    /\ key = "Unknown"
    /\ val = 0
    /\ key2 = "Unknown"
    /\ pcKey = "idle"

NoArgs == <<"none">>

EventIdle ==
    /\ reference = NoOldEvent
    /\ payload = NoArgs
    /\ built = "none"
    /\ x = None
    /\ asked = "none"
    /\ out = Returned(None, <<>>)
    /\ pcEvent = "idle"

Init == TrackerInit /\ KeyIdle /\ EventIdle

TrackerIdle == UNCHANGED <<modifiers, before, events>>
KeyUnchanged == UNCHANGED <<key, val, key2, pcKey>>
EventUnchanged ==
    UNCHANGED <<reference, payload, built, x, asked, out, pcEvent>>

\* `state.event(&e)` in an event loop; the window keeps the latest
\* MaxHistory envelopes.
Window(s) == IF Len(s) > MaxHistory THEN Tail(s) ELSE s

Feed(e) ==
    /\ before' = modifiers
    /\ modifiers' = event(modifiers, e)
    /\ events' = Window(Append(events, e))
    /\ KeyUnchanged
    /\ EventUnchanged

Next == \E e \in EventEnvelopes : Feed(e)

Spec == Init /\ [][Next]_vars

\* A run of at most MaxScript flat Input envelopes, all of them remembered.
ScriptEnvelopes ==
    { Input_Press(Keyboard(k)) :
        k \in {"LCtrl", "RCtrl", "RShift", "LAlt", "RGui"} }
    \cup { Input_Release(Keyboard("LCtrl")), Input_Focus(FALSE) }

Script(e) ==
    /\ Len(events) < MaxScript
    /\ before' = modifiers
    /\ modifiers' = event(modifiers, e)
    /\ events' = Append(events, e)
    /\ KeyUnchanged
    /\ EventUnchanged

NextScript == \E e \in ScriptEnvelopes : Script(e)

SpecScript == Init /\ [][NextScript]_vars

----------------------------------------------------------------------------
\* The key code conversions, as tests::keycode drives them.

\* The u32 codes handed to Key::from: the low range that holds the
\* character keys, the range above 0x4000_0000 that holds the scancode keys,
\* and codes far from both.
ScancodeMask == 1073741824
Codes ==
    (0 .. MaxLowCode)
    \cup { ScancodeMask + i : i \in 0 .. MaxHighOffset }
    \cup { 256 + 97, 536870912 + 57, ScancodeMask - 1, 2147483647 }

\* let val: u32 = key.into();
Into(k) ==
    /\ key' = k
    /\ val' = KeyIntoU32(k)
    /\ key2' = "Unknown"
    /\ pcKey' = "encoded"
    /\ TrackerIdle
    /\ EventUnchanged

\* let key2: Key = val.into();
From ==
    /\ pcKey = "encoded"
    /\ key2' = KeyFromU32(val)
    /\ pcKey' = "decoded"
    /\ UNCHANGED <<key, val>>
    /\ TrackerIdle
    /\ EventUnchanged

\* Key::from(code) on a code that comes from a backend.
FromCode(c) ==
    /\ key' = "Unknown"
    /\ val' = c
    /\ key2' = KeyFromU32(c)
    /\ pcKey' = "raw"
    /\ TrackerIdle
    /\ EventUnchanged

NextKey ==
    \/ \E k \in Keys : Into(k)
    \/ From
    \/ \E c \in Codes : FromCode(c)

SpecKey == Init /\ [][NextKey]_vars

----------------------------------------------------------------------------
\* The typed event traits driven as the tests of press.rs and render.rs
\* drive them: construct an envelope, then extract from it.

\* let x: Option<E> = PressEvent::from_button(button, &e);
FromButton(button, e) ==
    /\ reference' = e
    /\ payload' = button
    /\ built' = "press"
    /\ x' = from_button(button, e)
    /\ asked' = "none"
    /\ out' = Returned(None, <<>>)
    /\ pcEvent' = "constructed"
    /\ TrackerIdle /\ KeyUnchanged

\* let x: Option<E> = RenderEvent::from_render_args(&args); E is the type
\* of the envelope e the caller holds, e itself cannot be handed over.
FromRenderArgs(e, a) ==
    /\ reference' = e
    /\ payload' = a
    /\ built' = "render"
    /\ x' = from_render_args(EnumOf(e), a)
    /\ asked' = "none"
    /\ out' = Returned(None, <<>>)
    /\ pcEvent' = "constructed"
    /\ TrackerIdle /\ KeyUnchanged

\* An envelope that comes from a backend.
Receive(e) ==
    /\ reference' = NoOldEvent
    /\ payload' = NoArgs
    /\ built' = "none"
    /\ x' = Some(e)
    /\ asked' = "none"
    /\ out' = Returned(None, <<>>)
    /\ pcEvent' = "received"
    /\ TrackerIdle /\ KeyUnchanged

\* x.unwrap().press_args() and the accessors of the other traits.
Extract(kind) ==
    /\ pcEvent \in {"constructed", "received"}
    /\ x.some
    /\ asked' = kind
    /\ out' = CASE kind = "press" -> press_args(x.val)
                 [] kind = "release" -> release_args(x.val)
                 [] kind = "render" -> render_args(x.val)
                 [] kind = "focus" -> focus_args(x.val)
    /\ pcEvent' = "extracted"
    /\ UNCHANGED <<reference, payload, built, x>>
    /\ TrackerIdle /\ KeyUnchanged

\* x.unwrap().press(|button| PressEvent::from_button(button, &x.unwrap()))
PressRebuild ==
    /\ pcEvent \in {"constructed", "received"}
    /\ x.some
    /\ asked' = "press"
    /\ out' = press(x.val,
                    [button \in Buttons |-> from_button(button, x.val)])
    /\ pcEvent' = "rebuilt"
    /\ UNCHANGED <<reference, payload, built, x>>
    /\ TrackerIdle /\ KeyUnchanged

\* x.unwrap().render(|args| RenderEvent::from_render_args(args))
RenderRebuild ==
    /\ pcEvent \in {"constructed", "received"}
    /\ x.some
    /\ asked' = "render"
    /\ out' = render(x.val,
                     [a \in RenderArgsSet |->
                         from_render_args(EnumOf(x.val), a)])
    /\ pcEvent' = "rebuilt"
    /\ UNCHANGED <<reference, payload, built, x>>
    /\ TrackerIdle /\ KeyUnchanged

EnvelopeTypes == {"Input", "Event", "Tagged"}
AllEnvelopes == Envelopes \cup TaggedEnvelopes
Kinds == {"press", "release", "render", "focus"}

NextEvent ==
    \/ \E b \in Buttons, e \in AllEnvelopes : FromButton(b, e)
    \/ \E e \in AllEnvelopes, a \in RenderArgsSet : FromRenderArgs(e, a)
    \/ \E e \in AllEnvelopes : Receive(e)
    \/ \E kind \in Kinds : Extract(kind)
    \/ PressRebuild
    \/ RenderRebuild

SpecEvent == Init /\ [][NextEvent]_vars

----------------------------------------------------------------------------
\* Vocabulary of the properties of the reducer.
Last(s) == s[Len(s)]

\* The flag of each modifier and its left and right key.
Flags == {CTRL, SHIFT, ALT, GUI}
KeysOf(flag) ==
    CASE flag = CTRL -> {"LCtrl", "RCtrl"}
      [] flag = SHIFT -> {"LShift", "RShift"}
      [] flag = ALT -> {"LAlt", "RAlt"}
      [] flag = GUI -> {"LGui", "RGui"}

\* The envelopes of both concrete types that carry a press or a release of
\* button b, or a focus change to f.
PressOf(b) == { Input_Press(b), Event_Input(Input_Press(b)) }
ReleaseOf(b) == { Input_Release(b), Event_Input(Input_Release(b)) }
FocusOf(f) == { Input_Focus(f), Event_Input(Input_Focus(f)) }

\* Feeding the envelopes of s, oldest first, to a ModifierKey value.
RECURSIVE Fold(_, _)
Fold(self, s) ==
    IF s = <<>> THEN self ELSE Fold(event(self, Head(s)), Tail(s))

----------------------------------------------------------------------------
\* C1: from the empty state, press(LCtrl) yields {Ctrl}, then press(RShift)
\* yields {Ctrl, Shift}, then release(LCtrl) yields {Shift}, then a
\* focus-lost event yields the empty state.
C1_Script ==
    << Input_Press(Keyboard("LCtrl")), Input_Press(Keyboard("RShift")),
       Input_Release(Keyboard("LCtrl")), Input_Focus(FALSE) >>
C1_Expected == << CTRL, CTRL_SHIFT, SHIFT, NO_MODIFIER >>

C1_PressReleaseFocusScenario ==
    \A n \in DOMAIN C1_Script :
        events = SubSeq(C1_Script, 1, n) => modifiers = C1_Expected[n]

C1_Witness ==
    /\ events = C1_Script
    /\ before = SHIFT
    /\ modifiers = NO_MODIFIER

\* C2: a focus-lost event sets the state to empty from every prior state,
\* the events after it are applied starting from empty, and
\* [press(LAlt), press(RGui), focus(false), press(LCtrl)] ends in {Ctrl}.
C2_Script ==
    << Input_Press(Keyboard("LAlt")), Input_Press(Keyboard("RGui")),
       Input_Focus(FALSE), Input_Press(Keyboard("LCtrl")) >>

C2_FocusLostResets ==
    /\ events # <<>> /\ Last(events) \in FocusOf(FALSE)
            => modifiers = NO_MODIFIER
    /\ \A i \in DOMAIN events :
            events[i] \in FocusOf(FALSE) =>
                modifiers =
                    Fold(NO_MODIFIER, SubSeq(events, i + 1, Len(events)))
    /\ events = C2_Script => modifiers = CTRL

C2_Witness ==
    /\ events = C2_Script
    /\ modifiers = CTRL

\* A focus-lost event met with Ctrl, Shift, Alt and Gui all held.
C2_WitnessAllHeld ==
    /\ Len(events) = MaxScript
    /\ Last(events) \in FocusOf(FALSE)
    /\ before = CTRL_SHIFT_ALT_GUI
    /\ modifiers = NO_MODIFIER

\* C3: a press of the left or the right key of a modifier results in a
\* state with its flag set, from every prior state; the same press again,
\* with no event in between, leaves the state as the first press left it.
C3_PressSetsFlag ==
    /\ \A flag \in Flags : \A k \in KeysOf(flag) :
            events # <<>> /\ Last(events) \in PressOf(Keyboard(k))
                => /\ contains(modifiers, flag)
                   /\ modifiers = BitOr(before, flag)
    /\ \A k \in ModifierKeys :
            /\ Len(events) >= 2
            /\ Last(events) \in PressOf(Keyboard(k))
            /\ events[Len(events) - 1] = Last(events)
            => modifiers = before

C3_Witness ==
    /\ events = << Event_Input(Input_Press(Keyboard("RGui"))),
                   Event_Input(Input_Press(Keyboard("RGui"))) >>
    /\ before = BitOr(SHIFT, GUI)
    /\ modifiers = BitOr(SHIFT, GUI)

\* C4: a release of the left or the right key of a modifier results in a
\* state with its flag clear, from every prior state; when the flag was not
\* set the release leaves the whole state unchanged, and it never panics.
C4_ReleaseClearsFlag ==
    \A flag \in Flags : \A k \in KeysOf(flag) :
        events # <<>> /\ Last(events) \in ReleaseOf(Keyboard(k))
            => /\ ~contains(modifiers, flag)
               /\ \A other \in Flags \ {flag} :
                      contains(modifiers, other) <=> contains(before, other)
               /\ ~contains(before, flag) => modifiers = before
               /\ ~release_args(Last(events)).panic
               /\ ~press_args(Last(events)).panic
               /\ ~focus_args(Last(events)).panic

\* A release of a key that was not held, with another modifier held.
C4_Witness ==
    /\ events # <<>>
    /\ Last(events) = Event_Input(Input_Release(Keyboard("RShift")))
    /\ before = CTRL_ALT
    /\ modifiers = CTRL_ALT

\* C5: an event that is not a press or release of one of the eight modifier
\* keys and not a focus-lost event leaves the state unchanged.
C5_Observed ==
    UNION { PressOf(Keyboard(k)) \cup ReleaseOf(Keyboard(k)) :
              k \in ModifierKeys }
    \cup FocusOf(FALSE)

C5_OtherEventsAreNoOps ==
    events # <<>> /\ Last(events) \notin C5_Observed => modifiers = before

\* Focus gained, met with modifiers held.
C5_Witness ==
    /\ events # <<>>
    /\ Last(events) = Event_Input(Input_Focus(TRUE))
    /\ before = CTRL_SHIFT_ALT_GUI
    /\ modifiers = CTRL_SHIFT_ALT_GUI

\* Every kind of event that is not observed has been fed.
C5_WitnessKinds ==
    /\ Len(events) = 2
    /\ events[1] \in { Event_Render(a) : a \in RenderArgsSet }
    /\ events[2] = Event_Input(Input_Press(Mouse("Left")))
    /\ modifiers = before

----------------------------------------------------------------------------
\* C6: for every key k of the enumeration, Unknown included, decoding the
\* numeric code of k returns k, and no other key has the code of k.
C6_DecodeOfEncodeIsKey ==
    /\ pcKey = "decoded" => key2 = key
    /\ pcKey \in {"encoded", "decoded"} =>
            \A k \in Keys : KeyIntoU32(k) = val => k = key

C6_Witness ==
    /\ pcKey = "decoded"
    /\ key = "CapsLock"
    /\ val = ScancodeMask + 57
    /\ key2 = "CapsLock"

\* C7: Key::from is total: a code that is not the code of an enumerated key
\* decodes to Unknown, and a key other than Unknown is returned only for
\* its own code.
C7_UnknownForUnlistedCodes ==
    pcKey = "raw" =>
        /\ key2 \in Keys
        /\ val \notin { KeyIntoU32(k) : k \in Keys } => key2 = "Unknown"
        /\ key2 # "Unknown" => KeyIntoU32(key2) = val

\* 0x4000_004C, the gap between PageUp and End, decodes to Unknown.
C7_Witness ==
    /\ pcKey = "raw"
    /\ val = ScancodeMask + 76
    /\ key2 = "Unknown"

\* C8: Ctrl, Shift, Alt, Gui are the bits 1, 2, 4, 8, the zero value is
\* NO_MODIFIER, and each of the eleven combinations of two or more flags
\* is a named constant: a state that holds two or more flags is the value
\* of a named constant.
C8_HeldFlags == { flag \in Flags : contains(modifiers, flag) }

C8_EveryCombinationNamed ==
    /\ <<NO_MODIFIER, CTRL, SHIFT, ALT, GUI>> = <<0, 1, 2, 4, 8>>
    /\ Cardinality(C8_HeldFlags) >= 2 => modifiers \in ModifierKey

----------------------------------------------------------------------------
\* The event id of each typed trait.
IdOf(kind) ==
    CASE kind = "press" -> PRESS
      [] kind = "release" -> RELEASE
      [] kind = "render" -> RENDER
      [] kind = "focus" -> FOCUS

\* C9: when the constructor of kind X succeeds on payload p and a reference
\* envelope, the extraction of kind X on the result calls the visitor once,
\* with p, and returns Some(p), whatever the reference envelope held.
C9_ExtractOfConstructIsPayload ==
    /\ pcEvent = "extracted" /\ built # "none" /\ asked = built
            => /\ out.ret = Some(payload)
               /\ out.calls = <<payload>>
               /\ ~out.panic
    /\ pcEvent = "constructed" /\ x.some => event_id(x.val) = IdOf(built)

\* Key A put into an envelope built from a reference that held a release
\* of RCtrl, and read back.
C9_Witness ==
    /\ pcEvent = "extracted"
    /\ built = "press" /\ asked = "press"
    /\ reference = Event_Input(Input_Release(Keyboard("RCtrl")))
    /\ payload = Keyboard("A")
    /\ out.ret = Some(Keyboard("A"))

\* C10: for an envelope x that holds a payload of kind X, extracting the
\* payload and constructing an envelope of kind X from it, with x as the
\* reference, yields x again; for the flat Input and the nested Event.
C10_RebuildIsSameEnvelope ==
    (/\ pcEvent = "rebuilt"
     /\ x.val \in Envelopes
     /\ event_id(x.val) = IdOf(asked))
        => /\ out.ret = Some(x)
           /\ Len(out.calls) = 1
           /\ ~out.panic

C10_Witness ==
    /\ pcEvent = "rebuilt"
    /\ asked = "press"
    /\ x = Some(Event_Input(Input_Press(Keyboard("A"))))
    /\ out.ret = Some(x)

\* C11: the extraction of kind X on an envelope that holds a payload of
\* another kind returns None, does not call the visitor and does not panic.
C11_OtherKindIsNone ==
    pcEvent \in {"extracted", "rebuilt"} /\ event_id(x.val) # IdOf(asked)
        => out = Returned(None, <<>>)

\* press_args() on an envelope that holds a render payload.
C11_Witness ==
    /\ pcEvent = "extracted"
    /\ asked = "press"
    /\ x \in { Some(Event_Render(a)) : a \in RenderArgsSet }
    /\ out = Returned(None, <<>>)

\* The payload type of each typed trait.
TypeOf(kind) ==
    CASE kind = "press" -> "Button"
      [] kind = "release" -> "Button"
      [] kind = "render" -> "RenderArgs"
      [] kind = "focus" -> "bool"

\* C12: when event_id() reports kind X and the stored payload does not
\* downcast to the payload type of X, the extraction of kind X panics: it
\* returns nothing and does not call the visitor.
C12_MismatchPanics ==
    (/\ pcEvent \in {"extracted", "rebuilt"}
     /\ event_id(x.val) = IdOf(asked)
     /\ ~downcast_ref(TypeOf(asked), args_of(x.val)).some)
        => out = Panicked

\* press_args() on an envelope tagged PRESS that stores RenderArgs.
C12_Witness ==
    /\ pcEvent = "extracted"
    /\ asked = "press"
    /\ x = Some(Tagged(PRESS, AsAny("RenderArgs", RenderArgs(1, 10, 10)), 1))
    /\ out.panic
    /\ out.calls = <<>>

\* The out-of-band fields of an envelope.
OutOfBand(e) == IF EnumOf(e) = "Tagged" THEN <<TimeOf(e)>> ELSE <<>>

\* C13: the typed constructor of every kind takes the payload and a
\* reference envelope and is built on from_args, so the envelope it makes
\* has the concrete type and the out-of-band fields of the reference and
\* carries the payload under the id of the kind.
C13_ConstructorKeepsReference ==
    pcEvent = "constructed" /\ x.some
        => /\ EnumOf(x.val) = EnumOf(reference)
           /\ OutOfBand(x.val) = OutOfBand(reference)
           /\ event_id(x.val) = IdOf(built)
           /\ args_of(x.val) = AsAny(TypeOf(built), payload)

\* The part of C13 that PressEvent::from_button meets.
C13_PressKeepsReference == built = "press" => C13_ConstructorKeepsReference

\* The concrete type T has an envelope that holds a payload of kind id.
CanHold(T, id) ==
    \E e \in AllEnvelopes : EnumOf(e) = T /\ event_id(e) = id

\* C14: when the concrete envelope type cannot represent kind X, the typed
\* constructor of X returns the None of from_args: no panic and no
\* envelope of another kind.
C14_UnrepresentableIsNone ==
    pcEvent = "constructed" /\ ~CanHold(EnumOf(reference), IdOf(built))
        => x = None

\* from_render_args for the flat Input, which has no render variant.
C14_Witness ==
    /\ pcEvent = "constructed"
    /\ built = "render"
    /\ reference = Input_Press(Keyboard("A"))
    /\ x = None

\* What an envelope answers to the three queries of the reducer.
Answers(e) == <<press_args(e), release_args(e), focus_args(e)>>

\* C15: the next state is a function of the prior state and of the answers
\* to press_args, release_args and focus_args: an envelope of any type that
\* answers as the envelope just fed takes the prior state to the same state.
C15_AnswersDecideNextState ==
    events # <<>> =>
        \A e \in AllEnvelopes :
            Answers(e) = Answers(Last(events)) => event(before, e) = modifiers

\* A press of RShift in the composite Event; the flat Input answers alike.
C15_Witness ==
    /\ events # <<>>
    /\ Last(events) = Event_Input(Input_Press(Keyboard("RShift")))
    /\ Answers(Input_Press(Keyboard("RShift"))) = Answers(Last(events))
    /\ before = CTRL
    /\ modifiers = CTRL_SHIFT

\* The positions of the trace that bear on a flag: the presses and releases
\* of its two keys and the focus-lost events.
C16_Presses(flag) == UNION { PressOf(Keyboard(k)) : k \in KeysOf(flag) }
C16_Releases(flag) == UNION { ReleaseOf(Keyboard(k)) : k \in KeysOf(flag) }
C16_Bearing(flag) ==
    { i \in DOMAIN events :
        events[i] \in C16_Presses(flag) \cup C16_Releases(flag)
                       \cup FocusOf(FALSE) }

\* C16: a release of either key of a modifier clears the flag even when the
\* key of the other side is still held, so a flag is set exactly when the
\* latest press or release of the modifier since the last focus-lost event
\* was a press.
C16_Script ==
    << Input_Press(Keyboard("LCtrl")), Input_Press(Keyboard("RCtrl")),
       Input_Release(Keyboard("LCtrl")) >>

C16_LatestPressOrReleaseDecides ==
    /\ events = C16_Script => ~contains(modifiers, CTRL)
    /\ \A flag \in Flags :
            contains(modifiers, flag) <=>
                /\ C16_Bearing(flag) # {}
                /\ \E i \in C16_Bearing(flag) :
                       /\ \A j \in C16_Bearing(flag) : j <= i
                       /\ events[i] \in C16_Presses(flag)

C16_Witness ==
    /\ events = C16_Script
    /\ before = CTRL
    /\ modifiers = NO_MODIFIER

\* The flags on which two ModifierKey values differ.
C17_Changed(a, b) ==
    { flag \in Flags : contains(a, flag) # contains(b, flag) }

\* C17: the state is always a subset of {Ctrl, Shift, Alt, Gui}, a value in
\* 0..15; a press or release of a key of modifier M changes no flag but
\* M's, and only a focus-lost event changes more than one flag in a step.
C17_OnlyFourBitsOneAtATime ==
    /\ modifiers \in 0 .. 15
    /\ BitAnd(modifiers, BitNot(CTRL_SHIFT_ALT_GUI)) = 0
    /\ \A flag \in Flags : \A k \in KeysOf(flag) :
            events # <<>> /\ Last(events) \in PressOf(Keyboard(k))
                                          \cup ReleaseOf(Keyboard(k))
                => C17_Changed(before, modifiers) \subseteq {flag}
    /\ events # <<>> /\ Cardinality(C17_Changed(before, modifiers)) > 1
            => Last(events) \in FocusOf(FALSE)

\* Focus lost with all four flags held changes four flags in one step.
C17_Witness ==
    /\ events # <<>>
    /\ Last(events) = Event_Input(Input_Focus(FALSE))
    /\ before = CTRL_SHIFT_ALT_GUI
    /\ modifiers = NO_MODIFIER

=============================================================================
